---- MODULE Spec2Model ----
(***************************************************************************)
(* Model of summarizer/utils.py: feature spaces, the three vectorizers,    *)
(* cosine similarity, the sentence-length check, the redundancy filter     *)
(* is_repeat, and the summary assembly loop that drives them.              *)
(*                                                                         *)
(* Tokens are the integers 1..MaxTok; their order is the order Python's    *)
(* sorted() gives the token strings.  Python floats are IEEE-754 binary64  *)
(* values; they are modelled bit-exactly as records [m, e] standing for    *)
(* m * 2^e with a 53-bit mantissa m (or m = 0), m held as a little-endian  *)
(* sequence of 15-bit limbs because TLC integers are 32 bits wide.         *)
(***************************************************************************)
EXTENDS Integers, Sequences, FiniteSets, TLC

(***************************************************************************)
(* Bounds of the model.                                                    *)
(***************************************************************************)
MaxTok == 2       \* number of distinct tokens
MaxLen == 2       \* longest tokenized sentence
MaxWeight == 2    \* IDF weights are 1.0 .. MaxWeight
MaxDim == 3       \* longest numeric vector handed directly to cosine_sim
MaxVal == 1       \* largest entry of such a vector
MaxSents == 2     \* longest list of sentences handed to is_repeat
MaxCands == 3     \* longest candidate stream of the assembly loop
MaxWords == 3     \* most tokens in the sentences of one call of is_repeat
MaxStreamWords == 4  \* most tokens in the sentences of one candidate stream
MaxBudget == 2    \* largest word budget of the assembly loop

Max(a, b) == IF a >= b THEN a ELSE b
Min(a, b) == IF a <= b THEN a ELSE b

(***************************************************************************)
(* Natural numbers of arbitrary size: little-endian limb sequences without *)
(* leading zero limbs; <<>> is zero.                                       *)
(***************************************************************************)
LimbBits == 15
Base == 2^LimbBits

RECURSIVE BTrim(_)
BTrim(a) == IF a # <<>> /\ a[Len(a)] = 0 THEN BTrim(SubSeq(a, 1, Len(a) - 1)) ELSE a

RECURSIVE BFromInt(_)
BFromInt(n) == IF n = 0 THEN <<>> ELSE <<n % Base>> \o BFromInt(n \div Base)

Limb(a, i) == IF i <= Len(a) THEN a[i] ELSE 0

BAdd(a, b) ==
    LET n == Max(Len(a), Len(b))
        RECURSIVE go(_, _)
        go(i, c) == IF i > n THEN (IF c = 0 THEN <<>> ELSE <<c>>)
                    ELSE LET s == Limb(a, i) + Limb(b, i) + c
                         IN  <<s % Base>> \o go(i + 1, s \div Base)
    IN  go(1, 0)

\* a - b for a >= b
BSub(a, b) ==
    LET RECURSIVE go(_, _)
        go(i, c) == IF i > Len(a) THEN <<>>
                    ELSE LET s == Limb(a, i) - Limb(b, i) - c
                         IN  IF s < 0 THEN <<s + Base>> \o go(i + 1, 1)
                             ELSE <<s>> \o go(i + 1, 0)
    IN  BTrim(go(1, 0))

\* -1, 0, 1 as a < b, a = b, a > b
BCmp(a, b) ==
    LET RECURSIVE go(_)
        go(i) == IF i = 0 THEN 0
                 ELSE IF a[i] > b[i] THEN 1
                 ELSE IF a[i] < b[i] THEN -1
                 ELSE go(i - 1)
    IN  IF Len(a) > Len(b) THEN 1
        ELSE IF Len(a) < Len(b) THEN -1
        ELSE go(Len(a))

\* a * k for 0 <= k < Base
BMulSmall(a, k) ==
    LET RECURSIVE go(_, _)
        go(i, c) == IF i > Len(a) THEN (IF c = 0 THEN <<>> ELSE <<c>>)
                    ELSE LET s == a[i] * k + c
                         IN  <<s % Base>> \o go(i + 1, s \div Base)
    IN  IF k = 0 THEN <<>> ELSE go(1, 0)

\* a * Base^n
BShiftLimbs(a, n) == IF a = <<>> THEN <<>> ELSE [i \in 1..n |-> 0] \o a

BMul(a, b) ==
    LET RECURSIVE go(_)
        go(j) == IF j > Len(b) THEN <<>>
                 ELSE BAdd(BShiftLimbs(BMulSmall(a, b[j]), j - 1), go(j + 1))
    IN  go(1)

Pow2(k) == [i \in 1..(k \div LimbBits) |-> 0] \o <<2^(k % LimbBits)>>

\* a * 2^k
BShl(a, k) == BMul(a, Pow2(k))

\* floor(a / d) for 0 < d < Base
BDivSmall(a, d) ==
    LET RECURSIVE go(_, _)
        go(i, r) == IF i = 0 THEN <<>>
                    ELSE LET s == r * Base + a[i]
                         IN  go(i - 1, s % d) \o <<s \div d>>
    IN  BTrim(go(Len(a), 0))

\* floor(a / 2^k)
BShr(a, k) ==
    LET n == k \div LimbBits
    IN  IF n >= Len(a) THEN <<>>
        ELSE BDivSmall(SubSeq(a, n + 1, Len(a)), 2^(k % LimbBits))

RECURSIVE IntBits(_)
IntBits(n) == IF n = 0 THEN 0 ELSE 1 + IntBits(n \div 2)

BitLen(a) == IF a = <<>> THEN 0 ELSE (Len(a) - 1) * LimbBits + IntBits(a[Len(a)])

BOdd(a) == a # <<>> /\ a[1] % 2 = 1

\* floor(n / d) for d > 0: schoolbook long division, one limb of n at a time.
\* digit(cur, g, i) is the largest quotient digit, found bit by bit from bit
\* i down, g being the bits set so far.  Each chosen value is bound by a
\* quantifier before the next step, so that it is a value and not a pending
\* evaluation.
BDivFloor(n, d) ==
    LET RECURSIVE digit(_, _, _)
        digit(cur, g, i) ==
            CHOOSE r \in {IF i = 0 THEN g2 ELSE digit(cur, g2, i - 1) :
                             g2 \in {IF BCmp(BMulSmall(d, g + 2^i), cur) <= 0
                                     THEN g + 2^i ELSE g}} : TRUE
        RECURSIVE go(_, _)
        go(i, rem) ==
            IF i = 0 THEN <<>>
            ELSE LET cur == BAdd(BShiftLimbs(rem, 1), <<n[i]>>)
                 IN  CHOOSE q \in {go(i - 1, BSub(cur, BMulSmall(d, g))) \o <<g>> :
                                     g \in {IF BCmp(cur, d) < 0 THEN 0
                                            ELSE digit(cur, 0, LimbBits - 1)}} : TRUE
    IN  BTrim(go(Len(n), <<>>))

\* floor(sqrt(N)): the limbs of the root from the top one down, each limb
\* bit by bit.
ISqrt(N) ==
    LET WithDigit(r, g, L) == BAdd(r, BShiftLimbs(BTrim(<<g>>), L - 1))
        Fits(c) == BCmp(BMul(c, c), N) <= 0
        RECURSIVE digit(_, _, _, _)
        digit(r, L, g, i) ==
            CHOOSE q \in {IF i = 0 THEN g2 ELSE digit(r, L, g2, i - 1) :
                             g2 \in {IF Fits(WithDigit(r, g + 2^i, L))
                                     THEN g + 2^i ELSE g}} : TRUE
        RECURSIVE go(_, _)
        go(r, L) ==
            IF L = 0 THEN r
            ELSE CHOOSE q \in {go(WithDigit(r, g, L), L - 1) :
                                 g \in {digit(r, L, 0, LimbBits - 1)}} : TRUE
    IN  go(<<>>, (Len(N) + 1) \div 2)

(***************************************************************************)
(* IEEE-754 binary64 arithmetic on non-negative values, round to nearest,  *)
(* ties to even.  Exponents stay far inside the normal range here.         *)
(***************************************************************************)
MantBits == 53
GuardLimbs == 4
GuardBits == GuardLimbs * LimbBits

FZero == [m |-> <<>>, e |-> 0]

\* The float nearest to v * 2^e.
RoundToFloat(v, e) ==
    IF v = <<>> THEN FZero
    ELSE LET L == BitLen(v)
         IN  IF L <= MantBits
             THEN [m |-> BShl(v, MantBits - L), e |-> e - (MantBits - L)]
             ELSE LET sh == L - MantBits
                      q  == BShr(v, sh)
                      r  == BSub(v, BShl(q, sh))
                      c  == BCmp(r, Pow2(sh - 1))
                      q2 == IF c > 0 \/ (c = 0 /\ BOdd(q)) THEN BAdd(q, <<1>>) ELSE q
                  IN  IF BitLen(q2) > MantBits
                      THEN [m |-> BShr(q2, 1), e |-> e + sh + 1]
                      ELSE [m |-> q2, e |-> e + sh]

\* float(n) for an integer n >= 0
FromInt(n) == RoundToFloat(BFromInt(n), 0)

\* math.sqrt(n) for an integer-valued n >= 0: the root to GuardBits extra
\* bits, with a sticky bit appended when it is inexact, then rounded.
FSqrtInt(n) ==
    LET N == BShiftLimbs(BFromInt(n), 2 * GuardLimbs)
        r == ISqrt(N)
    IN  IF BCmp(BMul(r, r), N) = 0 THEN RoundToFloat(r, -GuardBits)
        ELSE RoundToFloat(BAdd(BShl(r, 1), <<1>>), -GuardBits - 1)

\* a * b
FMul(a, b) == RoundToFloat(BMul(a.m, b.m), a.e + b.e)

\* a / b for b # 0
FDiv(a, b) ==
    IF a.m = <<>> THEN FZero
    ELSE LET n == BShiftLimbs(a.m, GuardLimbs)
             q == BDivFloor(n, b.m)
         IN  IF BCmp(BMul(q, b.m), n) = 0 THEN RoundToFloat(q, a.e - b.e - GuardBits)
             ELSE RoundToFloat(BAdd(BShl(q, 1), <<1>>), a.e - b.e - GuardBits - 1)

\* -1, 0, 1 as a < b, a = b, a > b
FCmp(a, b) ==
    IF a.m = <<>> THEN (IF b.m = <<>> THEN 0 ELSE -1)
    ELSE IF b.m = <<>> THEN 1
    ELSE IF a.e > b.e THEN 1
    ELSE IF a.e < b.e THEN -1
    ELSE BCmp(a.m, b.m)

(***************************************************************************)
(* Input domains.                                                          *)
(***************************************************************************)
Tokens == 1..MaxTok

SeqsUpTo(S, n) == UNION {[1..k -> S] : k \in 0..n}

Range(s) == {s[i] : i \in 1..Len(s)}

\* tokenized sentences
Sentences == SeqsUpTo(Tokens, MaxLen)

\* numeric vectors a caller hands to cosine_sim directly
Vectors == SeqsUpTo(0..MaxVal, MaxDim)

\* The IDF weight file: a header line, then one <<token, weight>> line per
\* token, tokens ascending.
HeaderLine == <<0, 0>>
IdfFiles ==
    {<<HeaderLine>> \o f : f \in
        {g \in SeqsUpTo(Tokens \X (1..MaxWeight), MaxTok) :
            \A i \in 1..(Len(g) - 1) : g[i][1] < g[i + 1][1]}}

\* the files with lines for the tokens 1..k, for each k
CoverageFiles ==
    {<<HeaderLine>> \o [t \in 1..k |-> <<t, IF t <= MaxWeight THEN t ELSE MaxWeight>>] :
        k \in 0..MaxTok}

\* the lists of at most n sentences with at most w tokens in all
RECURSIVE ListsWithin(_, _)
ListsWithin(n, w) ==
    IF n = 0 THEN {<<>>}
    ELSE {<<>>} \cup
         UNION {{<<s>> \o rest : rest \in ListsWithin(n - 1, w - Len(s))} :
                   s \in {t \in Sentences : Len(t) <= w}}

VectFuns == {"binary", "freq", "tfidf"}

None == [none |-> TRUE]
AssertionError == [raised |-> "AssertionError"]
ZeroDivisionError == [raised |-> "ZeroDivisionError"]
IsFloat(v) == DOMAIN v = {"m", "e"}

(***************************************************************************)
(* State.                                                                  *)
(***************************************************************************)
VARIABLES
    pc,          \* position of the running harness
    idf_file,    \* content of UNSTEMMED_IDF_FILE
    vect_fun,    \* the vectorization strategy in use
    max_sim,     \* the similarity threshold in use
    x, y, sim,   \* cosine_sim on two numeric vectors and its result
    feat, doc1, vec,                            \* vect_fun(feat, doc1)
    doc2, fs_fwd, fs_rev, sim_fwd, sim_rev,     \* (doc1, doc2) against (doc2, doc1)
    sent, sents, rep,                           \* is_repeat(sent, sents)
    candidates, budgetWords, min_len, max_len,  \* the assembly loop: inputs
    accepted, acceptedIdx, usedWords, pos       \* the assembly loop: state

cfgVars == <<idf_file, vect_fun, max_sim>>
cosVars == <<x, y, sim>>
vecVars == <<feat, doc1, vec>>
symVars == <<doc2, fs_fwd, fs_rev, sim_fwd, sim_rev>>
repVars == <<sent, sents, rep>>
asmVars == <<candidates, budgetWords, min_len, max_len,
             accepted, acceptedIdx, usedWords, pos>>
vars == <<pc, cfgVars, cosVars, vecVars, symVars, repVars, asmVars>>

(***************************************************************************)
(* Token and vector utilities.                                             *)
(***************************************************************************)
\* sorted(S)
RECURSIVE sorted(_)
sorted(S) ==
    IF S = {} THEN <<>>
    ELSE LET least == CHOOSE t \in S : \A u \in S : t <= u
         IN  <<least>> \o sorted(S \ {least})

\* the tokens in order of first appearance instead of sorted
RECURSIVE first_seen(_, _)
first_seen(d, n) ==
    IF n = 0 THEN <<>>
    ELSE LET front == first_seen(d, n - 1)
         IN  IF d[n] \in Range(front) THEN front ELSE Append(front, d[n])

feature_space_unsorted(d1, d2) == first_seen(d1 \o d2, Len(d1) + Len(d2))

feature_space(d1, d2) == sorted(Range(d1) \cup Range(d2))

binary_vectorize(feature_space_, doc) ==
    [i \in 1..Len(feature_space_) |->
        IF feature_space_[i] \in Range(doc) THEN 1 ELSE 0]

\* the defaultdict after the counting loop over the first n words of doc
RECURSIVE freqs_of(_, _)
freqs_of(doc, n) ==
    IF n = 0 THEN [w \in {} |-> 0]
    ELSE LET freqs == freqs_of(doc, n - 1)
             word  == doc[n]
         IN  [w \in DOMAIN freqs \cup {word} |->
                 (IF w \in DOMAIN freqs THEN freqs[w] ELSE 0)
                 + (IF w = word THEN 1 ELSE 0)]

freq_vectorize(feature_space_, doc) ==
    LET freqs == freqs_of(doc, Len(doc))
    IN  [i \in 1..Len(feature_space_) |->
            IF feature_space_[i] \in DOMAIN freqs THEN freqs[feature_space_[i]] ELSE 0]

\* the dict built from the lines after the header; a later line wins
load_idf_weights ==
    LET lines == Tail(idf_file)
        last(t) == CHOOSE i \in 1..Len(lines) :
                      /\ lines[i][1] = t
                      /\ \A j \in (i + 1)..Len(lines) : lines[j][1] # t
    IN  [t \in {lines[i][1] : i \in 1..Len(lines)} |-> lines[last(t)][2]]

\* the count without the weight for a token of the table
tfidf_vectorize_unweighted(feature_space_, doc) ==
    LET idfs      == load_idf_weights
        freq_vect == freq_vectorize(feature_space_, doc)
    IN  [i \in 1..Min(Len(freq_vect), Len(feature_space_)) |->
            IF feature_space_[i] \in DOMAIN idfs THEN freq_vect[i] ELSE 0]

\* weight 1 instead of 0 for a token absent from the table
tfidf_vectorize_default_one(feature_space_, doc) ==
    LET idfs      == load_idf_weights
        freq_vect == freq_vectorize(feature_space_, doc)
    IN  [i \in 1..Min(Len(freq_vect), Len(feature_space_)) |->
            IF feature_space_[i] \in DOMAIN idfs
            THEN freq_vect[i] * idfs[feature_space_[i]]
            ELSE freq_vect[i]]

tfidf_vectorize(feature_space_, doc) ==
    LET idfs      == load_idf_weights
        freq_vect == freq_vectorize(feature_space_, doc)
    IN  [i \in 1..Min(Len(freq_vect), Len(feature_space_)) |->
            IF feature_space_[i] \in DOMAIN idfs
            THEN freq_vect[i] * idfs[feature_space_[i]]
            ELSE 0]

\* vect_fun(feat_space, doc) for the strategy named vf
Vectorize(vf, feat_space, doc) ==
    IF vf = "binary" THEN binary_vectorize(feat_space, doc)
    ELSE IF vf = "freq" THEN freq_vectorize(feat_space, doc)
    ELSE tfidf_vectorize(feat_space, doc)

(***************************************************************************)
(* Cosine similarity.                                                      *)
(***************************************************************************)
RECURSIVE SumTo(_, _)
SumTo(f, n) == IF n = 0 THEN 0 ELSE f[n] + SumTo(f, n - 1)

\* sum(v * w for v, w in zip(x, y))
Dot(xv, yv) ==
    LET n == Min(Len(xv), Len(yv))
    IN  SumTo([i \in 1..n |-> xv[i] * yv[i]], n)

\* sum(pow(v, 2) for v in x)
SumSq(xv) == SumTo([i \in 1..Len(xv) |-> xv[i] * xv[i]], Len(xv))

\* The vectors the vectorizers can produce within the bounds: at most one
\* entry per token of the two sentences, an entry being a count times a
\* weight, the counts of one sentence adding up to at most MaxLen.
DocVectors ==
    {v \in SeqsUpTo(0..(MaxLen * MaxWeight), Min(MaxTok, 2 * MaxLen)) :
        SumTo([i \in 1..Len(v) |-> (v[i] + MaxWeight - 1) \div MaxWeight], Len(v)) <= MaxLen}

\* <<dot product, sum of squares of x, sum of squares of y>> of every pair
\* of vectors cosine_sim can be given within the bounds
SimKeys ==
    {<<Dot(p[1], p[2]), SumSq(p[1]), SumSq(p[2])>> :
        p \in (Vectors \X Vectors) \cup
               {q \in DocVectors \X DocVectors : Len(q[1]) = Len(q[2])}}

\* math.sqrt of the sums of squares
sqrt == [n \in {k[2] : k \in SimKeys} \cup {k[3] : k \in SimKeys} |-> FSqrtInt(n)]

\* the float literal 0.00001
Tiny == FDiv(FromInt(1), FromInt(100000))

\* a / b as Python evaluates it
TrueDiv(a, b) == IF b.m = <<>> THEN ZeroDivisionError ELSE FDiv(a, b)

\* top / bot without the except clause
top_over_bot_unhandled ==
    [k \in SimKeys |-> TrueDiv(FromInt(k[1]), FMul(sqrt[k[2]], sqrt[k[3]]))]

\* top / bot, or top / 0.00001 when that raises ZeroDivisionError, by
\* <<top, sum of squares of x, sum of squares of y>>
top_over_bot ==
    [k \in SimKeys |->
        IF top_over_bot_unhandled[k] = ZeroDivisionError
        THEN TrueDiv(FromInt(k[1]), Tiny)
        ELSE top_over_bot_unhandled[k]]

\* cosine_sim without the assert on the lengths
cosine_sim_unchecked(xa, ya, vf) ==
    LET feat_space == feature_space(xa, ya)
        xv == IF vf # "None" THEN Vectorize(vf, feat_space, xa) ELSE xa
        yv == IF vf # "None" THEN Vectorize(vf, feat_space, ya) ELSE ya
    IN  top_over_bot[<<Dot(xv, yv), SumSq(xv), SumSq(yv)>>]

\* cosine_sim(x, y, vect_fun); vect_fun = "None" compares x and y as they are
cosine_sim(xa, ya, vf) ==
    LET feat_space == feature_space(xa, ya)
        xv == IF vf # "None" THEN Vectorize(vf, feat_space, xa) ELSE xa
        yv == IF vf # "None" THEN Vectorize(vf, feat_space, ya) ELSE ya
    IN  IF Len(xv) # Len(yv) THEN AssertionError
        ELSE top_over_bot[<<Dot(xv, yv), SumSq(xv), SumSq(yv)>>]

(***************************************************************************)
(* Summarizer utilities.                                                   *)
(***************************************************************************)
\* the default max_sim, the float literal 0.4
MAX_SIM_CUTOFF == FDiv(FromInt(4), FromInt(10))

\* an exclusive upper limit
is_valid_sent_len_exclusive(s, minl, maxl) == minl <= Len(s) /\ Len(s) < maxl

is_valid_sent_len(s, minl, maxl) == minl <= Len(s) /\ Len(s) <= maxl

\* >= instead of >
ExceedsMaxSim_or_equals(c, maxs) == FCmp(c, maxs) >= 0

\* cosine_sim(x, y) > max_sim
ExceedsMaxSim(c, maxs) == FCmp(c, maxs) > 0

\* the loop of is_repeat from the i-th of the other sentences on
RECURSIVE is_repeat_from(_, _, _, _, _)
is_repeat_from(i, s, others, vf, maxs) ==
    IF i > Len(others) THEN FALSE
    ELSE LET other_sent == others[i]
             feat_space == feature_space(s, other_sent)
             xv == Vectorize(vf, feat_space, s)
             yv == Vectorize(vf, feat_space, other_sent)
         IN  IF ExceedsMaxSim(cosine_sim(xv, yv, "None"), maxs) THEN TRUE
             ELSE is_repeat_from(i + 1, s, others, vf, maxs)

is_repeat(s, others, vf, maxs) == is_repeat_from(1, s, others, vf, maxs)

(***************************************************************************)
(* Harness values.                                                         *)
(***************************************************************************)
One == FromInt(1)

\* the largest float below 1.0
BelowOne == [m |-> BSub(Pow2(MantBits), <<1>>), e |-> -MantBits]

Thresholds == {FZero, MAX_SIM_CUTOFF, BelowOne}

\* the IDF file does not matter to the binary and frequency strategies
Configs(files, thresholds) ==
    {c \in [vf : VectFuns, file : files, maxs : thresholds] :
        c.vf # "tfidf" => c.file = <<HeaderLine>>}

CfgIdle == idf_file = <<HeaderLine>> /\ vect_fun = "None" /\ max_sim = MAX_SIM_CUTOFF
CosIdle == x = <<>> /\ y = <<>> /\ sim = None
VecIdle == feat = <<>> /\ doc1 = <<>> /\ vec = <<>>
SymIdle == doc2 = <<>> /\ fs_fwd = <<>> /\ fs_rev = <<>> /\ sim_fwd = None /\ sim_rev = None
RepIdle == sent = <<>> /\ sents = <<>> /\ rep = FALSE
AsmIdle == /\ candidates = <<>> /\ budgetWords = 0 /\ min_len = 0 /\ max_len = 0
           /\ accepted = <<>> /\ acceptedIdx = <<>> /\ usedWords = 0 /\ pos = 1

(***************************************************************************)
(* cosine_sim on numeric vectors.                                          *)
(***************************************************************************)
InitCosine ==
    /\ pc = "call"
    /\ x \in Vectors /\ y \in Vectors /\ sim = None
    /\ CfgIdle /\ VecIdle /\ SymIdle /\ RepIdle /\ AsmIdle

CosineSim ==
    /\ pc = "call"
    /\ sim' = cosine_sim(x, y, "None")
    /\ pc' = "done"
    /\ UNCHANGED <<x, y, cfgVars, vecVars, symVars, repVars, asmVars>>

NextCosine == CosineSim

SpecCosine == InitCosine /\ [][NextCosine]_vars

(***************************************************************************)
(* The three vectorizers on a feature space and a sentence.                *)
(***************************************************************************)
\* sorted lists of distinct tokens
FeatureSpaces == {sorted(S) : S \in SUBSET Tokens}

InitVectorize ==
    /\ pc = "call"
    /\ feat \in FeatureSpaces /\ doc1 \in Sentences /\ vec = <<>>
    /\ idf_file \in IdfFiles /\ vect_fun = "None" /\ max_sim = MAX_SIM_CUTOFF
    /\ CosIdle /\ SymIdle /\ RepIdle /\ AsmIdle

BinaryVectorize ==
    /\ pc = "call"
    /\ vec' = binary_vectorize(feat, doc1)
    /\ vect_fun' = "binary"
    /\ pc' = "done"
    /\ UNCHANGED <<idf_file, max_sim, feat, doc1, cosVars, symVars, repVars, asmVars>>

FreqVectorize ==
    /\ pc = "call"
    /\ vec' = freq_vectorize(feat, doc1)
    /\ vect_fun' = "freq"
    /\ pc' = "done"
    /\ UNCHANGED <<idf_file, max_sim, feat, doc1, cosVars, symVars, repVars, asmVars>>

TfidfVectorize ==
    /\ pc = "call"
    /\ vec' = tfidf_vectorize(feat, doc1)
    /\ vect_fun' = "tfidf"
    /\ pc' = "done"
    /\ UNCHANGED <<idf_file, max_sim, feat, doc1, cosVars, symVars, repVars, asmVars>>

NextVectorize == BinaryVectorize \/ FreqVectorize \/ TfidfVectorize

SpecVectorize == InitVectorize /\ [][NextVectorize]_vars

(***************************************************************************)
(* feature_space and cosine_sim with a vectorizer, on (doc1, doc2) and on  *)
(* (doc2, doc1).                                                           *)
(***************************************************************************)
InitSymmetry ==
    /\ pc = "fs_fwd"
    /\ doc1 \in Sentences /\ doc2 \in Sentences
    /\ \E c \in Configs(IdfFiles, {MAX_SIM_CUTOFF}) :
          idf_file = c.file /\ vect_fun = c.vf /\ max_sim = c.maxs
    /\ fs_fwd = <<>> /\ fs_rev = <<>> /\ sim_fwd = None /\ sim_rev = None
    /\ feat = <<>> /\ vec = <<>>
    /\ CosIdle /\ RepIdle /\ AsmIdle

FeatureSpaceFwd ==
    /\ pc = "fs_fwd"
    /\ fs_fwd' = feature_space(doc1, doc2)
    /\ pc' = "fs_rev"
    /\ UNCHANGED <<cfgVars, cosVars, vecVars, doc2, fs_rev, sim_fwd, sim_rev, repVars, asmVars>>

FeatureSpaceRev ==
    /\ pc = "fs_rev"
    /\ fs_rev' = feature_space(doc2, doc1)
    /\ pc' = "sim_fwd"
    /\ UNCHANGED <<cfgVars, cosVars, vecVars, doc2, fs_fwd, sim_fwd, sim_rev, repVars, asmVars>>

CosineSimFwd ==
    /\ pc = "sim_fwd"
    /\ sim_fwd' = cosine_sim(doc1, doc2, vect_fun)
    /\ pc' = "sim_rev"
    /\ UNCHANGED <<cfgVars, cosVars, vecVars, doc2, fs_fwd, fs_rev, sim_rev, repVars, asmVars>>

CosineSimRev ==
    /\ pc = "sim_rev"
    /\ sim_rev' = cosine_sim(doc2, doc1, vect_fun)
    /\ pc' = "done"
    /\ UNCHANGED <<cfgVars, cosVars, vecVars, doc2, fs_fwd, fs_rev, sim_fwd, repVars, asmVars>>

NextSymmetry == FeatureSpaceFwd \/ FeatureSpaceRev \/ CosineSimFwd \/ CosineSimRev

SpecSymmetry == InitSymmetry /\ [][NextSymmetry]_vars

(***************************************************************************)
(* is_repeat on a sentence and a list of sentences.                        *)
(***************************************************************************)
InitRepeat ==
    /\ pc = "call"
    /\ sent \in Sentences /\ sents \in ListsWithin(MaxSents, MaxWords - Len(sent))
    /\ rep = FALSE
    /\ \E c \in Configs(CoverageFiles, Thresholds) :
          idf_file = c.file /\ vect_fun = c.vf /\ max_sim = c.maxs
    /\ CosIdle /\ VecIdle /\ SymIdle /\ AsmIdle

IsRepeat ==
    /\ pc = "call"
    /\ rep' = is_repeat(sent, sents, vect_fun, max_sim)
    /\ pc' = "done"
    /\ UNCHANGED <<cfgVars, cosVars, vecVars, symVars, sent, sents, asmVars>>

NextRepeat == IsRepeat

SpecRepeat == InitRepeat /\ [][NextRepeat]_vars

(***************************************************************************)
(* The summary assembly loop: the summary_fun that gen_summaries calls     *)
(* with the sentences of a collection and a word budget.                   *)
(***************************************************************************)
\* > instead of >=
BudgetReached_strict(used, budget) == used > budget

\* the loop stops considering candidates
BudgetReached(used, budget) == used >= budget

InitAssemble ==
    /\ pc = "loop"
    /\ candidates \in ListsWithin(MaxCands, MaxStreamWords)
    /\ budgetWords \in 0..MaxBudget
    /\ min_len = 1 /\ max_len = MaxLen
    /\ \E c \in Configs(CoverageFiles, {MAX_SIM_CUTOFF}) :
          idf_file = c.file /\ vect_fun = c.vf /\ max_sim = c.maxs
    /\ accepted = <<>> /\ acceptedIdx = <<>> /\ usedWords = 0 /\ pos = 1
    /\ CosIdle /\ VecIdle /\ SymIdle /\ RepIdle

\* the candidate stream is exhausted
StreamExhausted ==
    /\ pc = "loop"
    /\ pos > Len(candidates)
    /\ pc' = "done"
    /\ UNCHANGED <<cfgVars, cosVars, vecVars, symVars, repVars, asmVars>>

\* the budget is reached
BudgetExhausted ==
    /\ pc = "loop"
    /\ pos <= Len(candidates)
    /\ BudgetReached(usedWords, budgetWords)
    /\ pc' = "done"
    /\ UNCHANGED <<cfgVars, cosVars, vecVars, symVars, repVars, asmVars>>

SkipInvalid ==
    /\ pc = "loop"
    /\ pos <= Len(candidates)
    /\ ~BudgetReached(usedWords, budgetWords)
    /\ ~is_valid_sent_len(candidates[pos], min_len, max_len)
    /\ pos' = pos + 1
    /\ UNCHANGED <<pc, cfgVars, cosVars, vecVars, symVars, repVars, candidates,
                   budgetWords, min_len, max_len, accepted, acceptedIdx, usedWords>>

SkipRedundant ==
    /\ pc = "loop"
    /\ pos <= Len(candidates)
    /\ ~BudgetReached(usedWords, budgetWords)
    /\ is_valid_sent_len(candidates[pos], min_len, max_len)
    /\ is_repeat(candidates[pos], accepted, vect_fun, max_sim)
    /\ pos' = pos + 1
    /\ UNCHANGED <<pc, cfgVars, cosVars, vecVars, symVars, repVars, candidates,
                   budgetWords, min_len, max_len, accepted, acceptedIdx, usedWords>>

Accept ==
    /\ pc = "loop"
    /\ pos <= Len(candidates)
    /\ ~BudgetReached(usedWords, budgetWords)
    /\ is_valid_sent_len(candidates[pos], min_len, max_len)
    /\ ~is_repeat(candidates[pos], accepted, vect_fun, max_sim)
    /\ accepted' = Append(accepted, candidates[pos])
    /\ acceptedIdx' = Append(acceptedIdx, pos)
    /\ usedWords' = usedWords + Len(candidates[pos])
    /\ pos' = pos + 1
    /\ UNCHANGED <<pc, cfgVars, cosVars, vecVars, symVars, repVars, candidates,
                   budgetWords, min_len, max_len>>

NextAssemble == StreamExhausted \/ BudgetExhausted \/ SkipInvalid \/ SkipRedundant \/ Accept

SpecAssemble == InitAssemble /\ [][NextAssemble]_vars

(***************************************************************************)
(* Properties.                                                             *)
(***************************************************************************)
AllZero(v) == \A i \in 1..Len(v) : v[i] = 0

\* the similarity of two sentences over their pairwise feature space
PairSim(a, b) ==
    LET fs == feature_space(a, b)
    IN  cosine_sim(Vectorize(vect_fun, fs, a), Vectorize(vect_fun, fs, b), "None")

\* the tokens the IDF file has a line for
IdfTokens == {idf_file[i][1] : i \in 2..Len(idf_file)}

Reorderings(s) ==
    {[i \in 1..Len(s) |-> s[p[i]]] :
        p \in {q \in [1..Len(s) -> 1..Len(s)] : \A i, j \in 1..Len(s) : q[i] = q[j] => i = j}}

\* C1: is_repeat returns True exactly when the similarity of the candidate
\* with at least one of the accepted sentences is strictly greater than the
\* threshold (a similarity equal to the threshold does not count), and it
\* returns the same for every permutation of the accepted list.
C1_RepeatIffSomeSimilarityExceeds ==
    pc = "done" =>
        /\ rep = (\E i \in 1..Len(sents) : FCmp(PairSim(sent, sents[i]), max_sim) = 1)
        /\ \A perm \in Reorderings(sents) : is_repeat(sent, perm, vect_fun, max_sim) = rep

C1_Witness ==
    /\ pc = "done" /\ rep /\ Len(sents) = 2
    /\ FCmp(PairSim(sent, sents[1]), max_sim) = 0
    /\ FCmp(PairSim(sent, sents[2]), max_sim) = 1

\* C2: with the TF-IDF strategy and a threshold below 1.0, is_repeat(S,
\* accepted) returns True whenever the accepted list contains S.
C2_SentenceRepeatsItself ==
    (pc = "done" /\ vect_fun = "tfidf" /\ FCmp(max_sim, One) = -1
        /\ sent \in Range(sents)) => rep

C5_CosineWithinUnitInterval ==
    (pc = "done" /\ Len(x) = Len(y)) =>
        /\ IsFloat(sim)
        /\ FCmp(sim, FZero) >= 0
        /\ FCmp(sim, One) <= 0
        /\ (x = y /\ ~AllZero(x)) => sim = One

\* C6: cosine_sim does not raise and returns 0.0 when one of the two
\* vectors, or both, are all-zero.
C6_ZeroVectorGivesZero ==
    (pc = "done" /\ Len(x) = Len(y) /\ (AllZero(x) \/ AllZero(y))) => sim = FZero

C6_Witness ==
    /\ pc = "done" /\ Len(x) = Len(y) /\ Len(x) > 1
    /\ AllZero(x) /\ ~AllZero(y) /\ sim = FZero

\* C7: cosine_sim on numeric vectors of unequal length fails with the
\* length assertion and returns no similarity.
C7_UnequalLengthsFail ==
    (pc = "done" /\ Len(x) # Len(y)) => sim = AssertionError

C7_Witness ==
    /\ pc = "done" /\ Len(x) # Len(y) /\ Dot(x, y) > 0 /\ sim = AssertionError

Count(t, doc) == Cardinality({j \in 1..Len(doc) : doc[j] = t})

\* the weight on the line of the IDF file for token t
WeightOf(t) == idf_file[CHOOSE i \in 2..Len(idf_file) : idf_file[i][1] = t][2]

\* C8: tfidf_vectorize(F, S) has the length of F; position i is the number
\* of occurrences of F[i] in S times the IDF weight of F[i], and 0 when the
\* table has no weight for F[i]; an empty S gives the all-zero vector.
C8_TfidfIsCountTimesWeight ==
    (pc = "done" /\ vect_fun = "tfidf") =>
        /\ Len(vec) = Len(feat)
        /\ \A i \in 1..Len(feat) :
              vec[i] = IF feat[i] \in IdfTokens
                       THEN Count(feat[i], doc1) * WeightOf(feat[i])
                       ELSE 0
        /\ doc1 = <<>> => AllZero(vec)

C8_Witness ==
    /\ pc = "done" /\ vect_fun = "tfidf"
    /\ \E i, j \in 1..Len(feat) :
          /\ feat[i] \in IdfTokens /\ WeightOf(feat[i]) > 1 /\ vec[i] > 1
          /\ feat[j] \notin IdfTokens /\ Count(feat[j], doc1) > 0 /\ vec[j] = 0

\* C9: feature_space(A, B) = feature_space(B, A), the sorted list of the
\* distinct tokens of both, and cosine_sim(A, B, strategy) =
\* cosine_sim(B, A, strategy).
C9_Symmetry ==
    pc = "done" =>
        /\ fs_fwd = fs_rev
        /\ Range(fs_fwd) = Range(doc1) \cup Range(doc2)
        /\ \A i \in 1..(Len(fs_fwd) - 1) : fs_fwd[i] < fs_fwd[i + 1]
        /\ sim_fwd = sim_rev

C9_Witness ==
    /\ pc = "done" /\ doc1 # <<>> /\ doc2 # <<>> /\ doc1[1] > doc2[1]
    /\ Range(doc1) # Range(doc2)
    /\ FCmp(sim_fwd, FZero) = 1 /\ FCmp(sim_fwd, One) = -1

RECURSIVE TotalLen(_, _)
TotalLen(ss, n) == IF n = 0 THEN 0 ELSE Len(ss[n]) + TotalLen(ss, n - 1)

\* C3: once usedWords >= budget the loop considers no further candidate, so
\* the words of the summary number less than the budget plus the length of
\* the sentence accepted last; a budget of 0 or an empty candidate stream
\* gives the empty summary.
C3_BudgetRespect ==
    /\ [](/\ usedWords = TotalLen(accepted, Len(accepted))
          /\ accepted # <<>> => usedWords < budgetWords + Len(accepted[Len(accepted)])
          /\ (budgetWords = 0 \/ candidates = <<>>) => accepted = <<>>)
    /\ [][usedWords >= budgetWords => (accepted' = accepted /\ pos' = pos)]_vars

C3_Witness ==
    /\ pc = "done" /\ Len(accepted) >= 2 /\ usedWords > budgetWords
    /\ pos <= Len(candidates)

\* the j-th candidate exceeds the threshold with a sentence accepted before it
RedundantWhenEvaluated(j) ==
    \E k \in Range(acceptedIdx) :
        k < j /\ FCmp(PairSim(candidates[j], candidates[k]), max_sim) = 1

\* C4: a candidate the loop has evaluated is in the accepted list if and
\* only if its length is within the limits and it was not a repeat of the
\* sentences accepted before it; the accepted list only grows, in
\* acceptance order.
C4_AcceptedSet ==
    /\ [](/\ Len(acceptedIdx) = Len(accepted)
          /\ \A i \in 1..Len(accepted) :
                acceptedIdx[i] < pos /\ accepted[i] = candidates[acceptedIdx[i]]
          /\ \A i \in 1..(Len(accepted) - 1) : acceptedIdx[i] < acceptedIdx[i + 1]
          /\ \A j \in 1..(pos - 1) :
                j \in Range(acceptedIdx) <=>
                    /\ min_len <= Len(candidates[j])
                    /\ Len(candidates[j]) <= max_len
                    /\ ~RedundantWhenEvaluated(j))
    /\ [][/\ Len(accepted') >= Len(accepted)
          /\ SubSeq(accepted', 1, Len(accepted)) = accepted]_vars

\* a sentence was accepted although it is similar to an earlier candidate
\* that was itself turned down as a repeat
C4_Witness ==
    /\ pc = "done"
    /\ \E j \in Range(acceptedIdx) : \E k \in 1..(j - 1) :
          /\ k \notin Range(acceptedIdx)
          /\ is_valid_sent_len(candidates[k], min_len, max_len)
          /\ FCmp(PairSim(candidates[j], candidates[k]), max_sim) = 1

\* the assembly loop has accepted one sentence twice
AcceptedTwice ==
    \E i, j \in 1..Len(accepted) : i < j /\ accepted[i] = accepted[j]

====
